---------------------------- MODULE Spec2Model ----------------------------
(***************************************************************************)
(* Model of doc/benchmark_generate_charts.py: the script reads a benchmark *)
(* report, splits it into the x86_64 and riscv64 sections, parses each     *)
(* section into a table  level -> category -> milliseconds,  and renders   *)
(* four absolute-runtime charts and two speedup charts.                    *)
(*                                                                         *)
(* Text is a sequence of one-character strings.  Positions are 1-based     *)
(* (Python's index p is position p+1 here).  A Python dict is a function   *)
(* whose DOMAIN is the set of keys; the empty dict is << >>.               *)
(***************************************************************************)
EXTENDS Integers, Sequences, FiniteSets, TLC

VARIABLES
    pc,             \* the module-level statement about to run (its line)
    content,        \* line 9: the text of doc/benchmark_results.txt
    x86_section,    \* line 12
    riscv_section,  \* line 13
    x86_data,       \* line 45
    riscv_data,     \* line 46
    charts,         \* filename -> what was drawn into the saved figure
    error           \* the exception that ended the run, or "none"

vars == <<pc, content, x86_section, riscv_section, x86_data, riscv_data,
          charts, error>>

---------------------------------------------------------------------------
(* Characters and the classes the regular expressions use.                 *)

NL == "\n"

DigitChars == <<"0", "1", "2", "3", "4", "5", "6", "7", "8", "9">>

Digit == {DigitChars[k] : k \in 1..10}

Letter == {"a", "b", "c", "d", "e", "f", "g", "h", "i", "j", "k", "l", "m",
           "n", "o", "p", "q", "r", "s", "t", "u", "v", "w", "x", "y", "z",
           "O"}

\* \w
WordChar == Letter \cup Digit \cup {"_"}

\* \s
SpaceChar == {" ", NL}

\* int() of a one-character string that is a digit
DigitVal(c) == (CHOOSE k \in 1..10 : DigitChars[k] = c) - 1

\* int(time): the value of a non-empty run of decimal digits
RECURSIVE ToInt(_)
ToInt(ds) ==
    IF Len(ds) = 0 THEN 0
    ELSE 10 * ToInt(SubSeq(ds, 1, Len(ds) - 1)) + DigitVal(ds[Len(ds)])

\* The literal strings of the script.
X86_64 == <<"x", "8", "6", "_", "6", "4">>
RISCV64 == <<"r", "i", "s", "c", "v", "6", "4">>
INTERPRET == <<"i", "n", "t", "e", "r", "p", "r", "e", "t">>
COMPILE == <<"c", "o", "m", "p", "i", "l", "e">>
GCC == <<"g", "c", "c">>
CLANG == <<"c", "l", "a", "n", "g">>
DASH_O == <<"-", "O">>
TRANSPILE_O == <<"t", "r", "a", "n", "s", "p", "i", "l", "e", "_", "O">>
DOT_C == <<".", "c">>
MS == <<"m", "s">>

\* s[i:i+len(t)] == t
Lit(s, i, t) ==
    /\ i >= 1
    /\ i + Len(t) - 1 <= Len(s)
    /\ \A k \in 1..Len(t) : s[i + k - 1] = t[k]

\* The end of the longest run of characters of class S that starts at i:
\* the first position >= i whose character is not in S (Len(s)+1 if none).
RECURSIVE Run(_, _, _)
Run(s, i, S) ==
    IF i > Len(s) \/ s[i] \notin S THEN i ELSE Run(s, i + 1, S)

\* The least element of a non-empty set of positions.
Least(S) == CHOOSE x \in S : \A y \in S : x <= y

\* The first position >= from at which t occurs in s, 0 if there is none.
Find(s, t, from) ==
    LET hits == {j \in from..(Len(s) - Len(t) + 1) : Lit(s, j, t)}
    IN  IF hits = {} THEN 0 ELSE Least(hits)

\* "t in s"
Contains(s, t) == Find(s, t, 1) # 0

---------------------------------------------------------------------------
(* Section Splitter, lines 12-13.                                          *)

\* re.search(r"x86_64.*?(?=riscv64|\Z)", content, re.DOTALL): the leftmost
\* "x86_64", then as few characters as possible up to the next "riscv64"
\* or, if none follows, the end of the text.  None when there is no
\* "x86_64".
SearchX86(text) ==
    LET x == Find(text, X86_64, 1)
        q == IF x = 0 THEN 0 ELSE Find(text, RISCV64, x + Len(X86_64))
    IN  IF x = 0 THEN [found |-> FALSE, start |-> 0, group |-> << >>]
        ELSE [found |-> TRUE, start |-> x,
              group |-> SubSeq(text, x, IF q = 0 THEN Len(text) ELSE q - 1)]

\* A variant of line 13 whose search cannot fail: an optional group,
\* r"(?:riscv64.*)?", matches the empty string where the marker is missing.
SearchRiscvOptional(text) ==
    LET r == Find(text, RISCV64, 1)
    IN  IF r = 0 THEN [found |-> TRUE, start |-> 1, group |-> << >>]
        ELSE [found |-> TRUE, start |-> r,
              group |-> SubSeq(text, r, Len(text))]

\* re.search(r"riscv64.*", content, re.DOTALL): the leftmost "riscv64" and
\* everything after it.  None when there is no "riscv64".
SearchRiscv(text) ==
    LET r == Find(text, RISCV64, 1)
    IN  IF r = 0 THEN [found |-> FALSE, start |-> 0, group |-> << >>]
        ELSE [found |-> TRUE, start |-> r,
              group |-> SubSeq(text, r, Len(text))]

---------------------------------------------------------------------------
(* Line Parser, lines 17-18.                                               *)
(*   pattern = (\w+(?:\s+-O\d+|\s+.*?transpile_O\d+\.c))\s+(\d+)ms         *)
(* Every repetition but .*? is followed by a character outside its class,  *)
(* so each such run is the whole run; .*? takes the fewest characters      *)
(* (none of them a newline) for which the rest of the pattern matches.     *)

NoMatch == [ok |-> FALSE, mstart |-> 0, mend |-> 0, tstart |-> 0, tend |-> 0,
            end |-> 0]

\* \s+(\d+)ms at position i, for a method that spans m..i-1
MatchTail(s, m, i) ==
    LET j == Run(s, i, SpaceChar)
        k == Run(s, j, Digit)
    IN  IF j > i /\ k > j /\ Lit(s, k, MS)
        THEN [ok |-> TRUE, mstart |-> m, mend |-> i - 1, tstart |-> j,
              tend |-> k - 1, end |-> k + 2]
        ELSE NoMatch

\* -O\d+ at position i: the position after it, 0 if it does not match
FlagEnd(s, i) ==
    LET k == Run(s, i + 2, Digit)
    IN  IF Lit(s, i, DASH_O) /\ k > i + 2 THEN k ELSE 0

\* transpile_O\d+\.c at position i: the position after it, 0 if no match
TranspileEnd(s, i) ==
    LET k == Run(s, i + Len(TRANSPILE_O), Digit)
    IN  IF /\ Lit(s, i, TRANSPILE_O)
           /\ k > i + Len(TRANSPILE_O)
           /\ Lit(s, k, DOT_C)
        THEN k + 2 ELSE 0

\* The second alternative, .*?transpile_O\d+\.c then the tail, with .*?
\* starting at p and currently extended to q.
RECURSIVE LazyTranspile(_, _, _)
LazyTranspile(s, m, q) ==
    LET e == TranspileEnd(s, q)
        t == IF e = 0 THEN NoMatch ELSE MatchTail(s, m, e)
    IN  IF t.ok THEN t
        ELSE IF q <= Len(s) /\ s[q] # NL THEN LazyTranspile(s, m, q + 1)
        ELSE NoMatch

\* The pattern anchored at position i.
MatchAt(s, i) ==
    LET w == Run(s, i, WordChar)
        p == Run(s, w, SpaceChar)
        e == FlagEnd(s, p)
        first == IF e = 0 THEN NoMatch ELSE MatchTail(s, i, e)
    IN  IF w = i \/ p = w THEN NoMatch
        ELSE IF first.ok THEN first
        ELSE LazyTranspile(s, i, p)

\* The leftmost position in lo..hi at which the pattern matches, 0 if it
\* matches at none (found by halving the range).
RECURSIVE FirstMatch(_, _, _)
FirstMatch(s, lo, hi) ==
    IF lo > hi THEN 0
    ELSE IF lo = hi THEN (IF MatchAt(s, lo).ok THEN lo ELSE 0)
    ELSE LET mid == (lo + hi) \div 2
             left == FirstMatch(s, lo, mid)
         IN  IF left # 0 THEN left ELSE FirstMatch(s, mid + 1, hi)

\* re.findall(pattern, section): the non-overlapping matches, left to
\* right, each as the pair of its two groups (method, time); the scan
\* resumes where the previous match ended.
RECURSIVE FindAll(_, _)
FindAll(s, i) ==
    LET at == FirstMatch(s, i, Len(s))
        m == MatchAt(s, at)
    IN  IF at = 0 THEN << >>
        ELSE <<[method |-> SubSeq(s, m.mstart, m.mend),
                time |-> SubSeq(s, m.tstart, m.tend)]>>
             \o FindAll(s, m.end)

---------------------------------------------------------------------------
(* Category Classifier and Benchmark Table Builder, lines 21-42.           *)

\* int(ch) for a one-character string: its value, or ValueError (-1 here)
IntOfChar(ch) == IF ch \in Digit THEN DigitVal(ch) ELSE -1

\* The level character each branch reads: method[-1] or method[-3].
LastChar(method) == method[Len(method)]
ThirdLastChar(method) == method[Len(method) - 2]

\* Lines 23-36: the branch taken for one method, first match wins, and
\* what int() makes of the character that branch reads.
\*   kind "cell": a (category, opt_level) pair; "skip": the else-continue;
\*   "ValueError": int() raised.
Classify(method) ==
    LET branch ==
            IF Contains(method, INTERPRET)
            THEN [category |-> "interpreter", ch |-> LastChar(method)]
            ELSE IF Contains(method, COMPILE)
            THEN [category |-> "native", ch |-> LastChar(method)]
            ELSE IF Contains(method, GCC)
            THEN [category |-> "gcc", ch |-> ThirdLastChar(method)]
            ELSE IF Contains(method, CLANG)
            THEN [category |-> "clang", ch |-> ThirdLastChar(method)]
            ELSE [category |-> "none", ch |-> "0"]
        level == IntOfChar(branch.ch)
    IN  IF branch.category = "none"
        THEN [kind |-> "skip", category |-> "none", opt_level |-> 0]
        ELSE IF level < 0
        THEN [kind |-> "ValueError", category |-> branch.category,
              opt_level |-> 0]
        ELSE [kind |-> "cell", category |-> branch.category,
              opt_level |-> level]

\* d[k] = v on a dict d
Put(d, k, v) == [x \in DOMAIN d \cup {k} |-> IF x = k THEN v ELSE d[x]]

\* Lines 38-40 with the assignment skipped when the cell is already there.
StoreKeepFirst(data, opt_level, category, time) ==
    IF opt_level \in DOMAIN data /\ category \in DOMAIN data[opt_level]
    THEN data
    ELSE Put(data, opt_level,
             Put(IF opt_level \in DOMAIN data THEN data[opt_level] ELSE << >>,
                 category, time))

\* Lines 38-40: create the level's row if it is new, then assign the cell.
Store(data, opt_level, category, time) ==
    Put(data, opt_level,
        Put(IF opt_level \in DOMAIN data THEN data[opt_level] ELSE << >>,
            category, time))

\* The loop of lines 22-40 from match k on.  An exception leaves the loop
\* with no table returned.
RECURSIVE FoldMatches(_, _, _)
FoldMatches(matches, k, data) ==
    IF k > Len(matches) THEN [error |-> "none", data |-> data]
    ELSE LET r == Classify(matches[k].method)
         IN  IF r.kind = "skip" THEN FoldMatches(matches, k + 1, data)
             ELSE IF r.kind = "ValueError"
             THEN [error |-> "ValueError", data |-> << >>]
             ELSE FoldMatches(matches, k + 1,
                              Store(data, r.opt_level, r.category,
                                    ToInt(matches[k].time)))

\* parse_section(section), lines 16-42
parse_section(section) == FoldMatches(FindAll(section, 1), 1, << >>)

---------------------------------------------------------------------------
(* Plot settings, lines 53-65, and the category orders of lines 70, 164.   *)

colors == [interpreter |-> "#e13b59", native |-> "#f3ba14",
           gcc |-> "#59a14f", clang |-> "#4e79a6"]

labels == [interpreter |-> "brainiac --interpret",
           native |-> "brainiac --compile",
           gcc |-> "gcc -O3", clang |-> "clang -O3"]

AllCategories == <<"interpreter", "native", "gcc", "clang">>

CompiledCategories == <<"native", "gcc", "clang">>

\* sorted(S) for a set of integers
RECURSIVE Sorted(_)
Sorted(S) ==
    IF S = {} THEN << >>
    ELSE LET m == CHOOSE x \in S : \A y \in S : x <= y
         IN  <<m>> \o Sorted(S \ {m})

---------------------------------------------------------------------------
(* create_bar_chart, lines 68-126.  A chart is recorded by the bars drawn  *)
(* into it, in drawing order; a bar keeps its group i and slot j (which,   *)
(* with the number of bars per group, fix x_pos), its height, its legend   *)
(* label and whether it was annotated.                                     *)

\* line 90: data[opt_level].get(category, 0)
CellOrZero(row, category) ==
    IF category \in DOMAIN row THEN row[category] ELSE 0

\* A variant of line 98 that also annotates a zero-height bar.
AnnotatesZeroToo(value) == value >= 0

\* line 98: if value > 0
Annotates(value) == value > 0

create_bar_chart(data, include_interpreter) ==
    LET categories == IF include_interpreter THEN AllCategories
                      ELSE CompiledCategories
        opt_levels == Sorted(DOMAIN data)
        num_bars_per_group == Len(categories)
        Bar(k) ==
            LET i == (k - 1) \div num_bars_per_group
                j == (k - 1) % num_bars_per_group
                value == CellOrZero(data[opt_levels[i + 1]], categories[j + 1])
            IN  [group |-> i, slot |-> j,
                 opt_level |-> opt_levels[i + 1],
                 category |-> categories[j + 1],
                 value |-> value,
                 label |-> IF i = 0 THEN labels[categories[j + 1]] ELSE "",
                 color |-> colors[categories[j + 1]],
                 annotated |-> Annotates(value)]
    IN  [kind |-> "runtime",
         categories |-> categories,
         opt_levels |-> opt_levels,
         num_bars_per_group |-> num_bars_per_group,
         speedups |-> << >>,
         bars |-> [k \in 1..(Len(opt_levels) * num_bars_per_group) |-> Bar(k)]]

---------------------------------------------------------------------------
(* create_speedup_chart, lines 163-224.                                    *)

RECURSIVE GCD(_, _)
GCD(a, b) == IF b = 0 THEN a ELSE GCD(b, a % b)

\* baseline / time for time # 0: the float quotient, kept as the fraction
\* in lowest terms (the rounding of the float is immaterial to what is
\* stated here: the quotient is 0.0 exactly when baseline is 0).
Quotient(baseline, time) ==
    [type |-> "float", num |-> baseline \div GCD(baseline, time),
     den |-> time \div GCD(baseline, time)]

\* The literal 0 of line 172's else branch.
IntZero == [type |-> "int", num |-> 0, den |-> 1]

\* a == b on numbers: Python compares int and float by value
PyEq(a, b) == a.num * b.den = b.num * a.den

\* A variant of line 165 that keeps the baseline level.
AllLevels(data) == Sorted(DOMAIN data)

\* line 165: sorted(data.keys())[1:]
SpeedupLevels(data) ==
    LET all == Sorted(DOMAIN data)
    IN  IF Len(all) = 0 THEN << >> ELSE Tail(all)

\* line 172: the list for one category already known to be in data[0]
SpeedupValues(data, opt_levels, category) ==
    [i \in 1..Len(opt_levels) |->
        IF category \in DOMAIN data[opt_levels[i]]
        THEN Quotient(data[0][category], data[opt_levels[i]][category])
        ELSE IntZero]

\* line 172 raises ZeroDivisionError for a present cell holding 0
DividesByZero(data, opt_levels, category) ==
    \E i \in 1..Len(opt_levels) :
        /\ category \in DOMAIN data[opt_levels[i]]
        /\ data[opt_levels[i]][category] = 0

\* Lines 163-224.  error is the exception raised ("none" if the figure was
\* saved); speedups lists (category, values) in insertion order.
create_speedup_chart(data) ==
    LET opt_levels == SpeedupLevels(data)
        InBaseline(c) == c \in DOMAIN data[0]
        categories == SelectSeq(AllCategories, InBaseline)
        speedups == [j \in 1..Len(categories) |->
                        [category |-> categories[j],
                         values |-> SpeedupValues(data, opt_levels,
                                                  categories[j])]]
        num_bars_per_group == Len(speedups)
        Bar(k) ==
            LET i == (k - 1) \div num_bars_per_group
                j == (k - 1) % num_bars_per_group
            IN  [group |-> i, slot |-> j,
                 opt_level |-> opt_levels[i + 1],
                 category |-> categories[j + 1],
                 value |-> speedups[j + 1].values[i + 1],
                 label |-> IF i = 0 THEN labels[categories[j + 1]] ELSE "",
                 color |-> colors[categories[j + 1]],
                 annotated |-> TRUE]
        \* line 185: continue when values[i] == 0
        Drawn(bar) == ~PyEq(bar.value, IntZero)
        grid == [k \in 1..(Len(opt_levels) * num_bars_per_group) |-> Bar(k)]
        failed(e) == [error |-> e, chart |-> << >>]
    IN  IF 0 \notin DOMAIN data THEN failed("KeyError")
        ELSE IF \E j \in 1..Len(categories) :
                    DividesByZero(data, opt_levels, categories[j])
        THEN failed("ZeroDivisionError")
        ELSE IF num_bars_per_group = 0 THEN failed("ZeroDivisionError")
        ELSE [error |-> "none",
              chart |-> [kind |-> "speedup",
                         categories |-> categories,
                         opt_levels |-> opt_levels,
                         num_bars_per_group |-> num_bars_per_group,
                         speedups |-> speedups,
                         bars |-> SelectSeq(grid, Drawn)]]

---------------------------------------------------------------------------
(* The report file, doc/benchmark_results.txt, read at lines 8-9.  Two     *)
(* families of reports are explored: free texts, any sequence of up to     *)
(* MaxPieces pieces (markers, well-formed and odd benchmark lines), and    *)
(* table texts, which list an x86_64 table with levels 0..MaxLevel cell by *)
(* cell and then a fixed riscv64 table, one of whose cells is measured     *)
(* twice.                                                                  *)

MaxPieces == 3

MaxLevel == 2

\* str(n) for n >= 0: how the report writes a number
RECURSIVE Decimal(_)
Decimal(n) ==
    IF n < 10 THEN <<DigitChars[n + 1]>>
    ELSE Decimal(n \div 10) \o <<DigitChars[(n % 10) + 1]>>

\* "<word> -O<level> <time>ms\n"
FlagLine(word, level, time) ==
    word \o <<" ">> \o DASH_O \o Decimal(level) \o <<" ">> \o Decimal(time)
         \o MS \o <<NL>>

\* "<word> -O3 transpile_O<level>.c <time>ms\n"
TranspileLine(word, level, time) ==
    word \o <<" ">> \o DASH_O \o <<"3", " ">> \o TRANSPILE_O
         \o Decimal(level) \o DOT_C \o <<" ">> \o Decimal(time) \o MS
         \o <<NL>>

\* The line the report holds for one cell of a table.
CellLine(category, level, time) ==
    CASE category = "interpreter" -> FlagLine(INTERPRET, level, time)
      [] category = "native" -> FlagLine(COMPILE, level, time)
      [] category = "gcc" ->
            TranspileLine(X86_64 \o <<"-">> \o GCC, level, time)
      [] category = "clang" -> TranspileLine(CLANG, level, time)

Pieces ==
    { X86_64 \o <<NL>>,
      RISCV64 \o <<NL>>,
      FlagLine(COMPILE, 2, 1234),
      TranspileLine(X86_64 \o <<"-">> \o GCC, 3, 987),
      FlagLine(COMPILE, 2, 7),
      FlagLine(GCC, 3, 5),
      FlagLine(COMPILE, 12, 3),
      FlagLine(<<"t", "o", "t", "a", "l">>, 1, 9) }

RECURSIVE Concat(_)
Concat(pieces) ==
    IF Len(pieces) = 0 THEN << >>
    ELSE Head(pieces) \o Concat(Tail(pieces))

FreeTexts ==
    { Concat(ps) : ps \in UNION { [1..n -> Pieces] : n \in 0..MaxPieces } }

\* A table text's x86_64 table: every native cell is absent (<< >>) or
\* holds 0, 1 or 2 ms, every gcc cell is absent or holds 1 ms.
TableChoices ==
    [ (0..MaxLevel) -> [native : {<< >>, <<0>>, <<1>>, <<2>>},
                        gcc : {<< >>, <<1>>}] ]

RECURSIVE TableLines(_, _)
TableLines(choice, level) ==
    IF level > MaxLevel THEN << >>
    ELSE (IF choice[level].native = << >> THEN << >>
          ELSE CellLine("native", level, choice[level].native[1]))
         \o (IF choice[level].gcc = << >> THEN << >>
             ELSE CellLine("gcc", level, choice[level].gcc[1]))
         \o TableLines(choice, level + 1)

RiscvPart ==
    RISCV64 \o <<NL>>
        \o CellLine("interpreter", 0, 4) \o CellLine("clang", 0, 2)
        \o CellLine("interpreter", 1, 3) \o CellLine("clang", 1, 1)
        \o CellLine("interpreter", 1, 2)

TableTexts ==
    { X86_64 \o <<NL>> \o TableLines(choice, 0) \o RiscvPart :
        choice \in TableChoices }

Reports == FreeTexts \cup TableTexts

---------------------------------------------------------------------------
(* The script, statement by statement.  pc names the line of the next      *)
(* module-level statement to run, "done" once the last has run.  An       *)
(* uncaught exception ends the script where it is raised: error names it   *)
(* and pc stays at the statement that raised (the traceback's line).       *)

Init ==
    /\ pc = "L8"
    /\ content = << >>
    /\ x86_section = << >>
    /\ riscv_section = << >>
    /\ x86_data = << >>
    /\ riscv_data = << >>
    /\ charts = << >>
    /\ error = "none"

\* An uncaught exception ends the script.
Raise(e) ==
    /\ error' = e
    /\ UNCHANGED pc

\* The script is still running.
Running == error = "none"

\* Lines 8-9: content = f.read()
ReadReport ==
    /\ Running
    /\ pc = "L8"
    /\ content' \in Reports
    /\ pc' = "L12"
    /\ UNCHANGED <<x86_section, riscv_section, x86_data, riscv_data, charts,
                   error>>

\* Line 12: .group(0) on None raises AttributeError
SplitX86 ==
    /\ Running
    /\ pc = "L12"
    /\ LET m == SearchX86(content)
       IN  IF m.found
           THEN /\ x86_section' = m.group
                /\ pc' = "L13"
                /\ UNCHANGED error
           ELSE /\ Raise("AttributeError")
                /\ UNCHANGED x86_section
    /\ UNCHANGED <<content, riscv_section, x86_data, riscv_data, charts>>

\* Line 13
SplitRiscv ==
    /\ Running
    /\ pc = "L13"
    /\ LET m == SearchRiscv(content)
       IN  IF m.found
           THEN /\ riscv_section' = m.group
                /\ pc' = "L45"
                /\ UNCHANGED error
           ELSE /\ Raise("AttributeError")
                /\ UNCHANGED riscv_section
    /\ UNCHANGED <<content, x86_section, x86_data, riscv_data, charts>>

\* Line 45: x86_data = parse_section(x86_section)
ParseX86 ==
    /\ Running
    /\ pc = "L45"
    /\ LET r == parse_section(x86_section)
       IN  IF r.error = "none"
           THEN /\ x86_data' = r.data
                /\ pc' = "L46"
                /\ UNCHANGED error
           ELSE /\ Raise(r.error)
                /\ UNCHANGED x86_data
    /\ UNCHANGED <<content, x86_section, riscv_section, riscv_data, charts>>

\* Line 46: riscv_data = parse_section(riscv_section)
\* (lines 49-65 that follow only bind names and create the directory)
ParseRiscv ==
    /\ Running
    /\ pc = "L46"
    /\ LET r == parse_section(riscv_section)
       IN  IF r.error = "none"
           THEN /\ riscv_data' = r.data
                /\ pc' = "L129"
                /\ UNCHANGED error
           ELSE /\ Raise(r.error)
                /\ UNCHANGED riscv_data
    /\ UNCHANGED <<content, x86_section, riscv_section, x86_data, charts>>

\* The four calls of create_bar_chart, lines 129-160.
BarChartCalls ==
    << [pc |-> "L129", platform |-> "x86_64",
        filename |-> "benchmark_x86_all.png", include_interpreter |-> TRUE,
        next |-> "L137"],
       [pc |-> "L137", platform |-> "x86_64",
        filename |-> "benchmark_x86_compiled.png",
        include_interpreter |-> FALSE, next |-> "L146"],
       [pc |-> "L146", platform |-> "riscv64",
        filename |-> "benchmark_riscv_all.png", include_interpreter |-> TRUE,
        next |-> "L154"],
       [pc |-> "L154", platform |-> "riscv64",
        filename |-> "benchmark_riscv_compiled.png",
        include_interpreter |-> FALSE, next |-> "L227"] >>

\* The two calls of create_speedup_chart, lines 227-237.
SpeedupChartCalls ==
    << [pc |-> "L227", platform |-> "x86_64",
        filename |-> "benchmark_x86_speedup.png", next |-> "L233"],
       [pc |-> "L233", platform |-> "riscv64",
        filename |-> "benchmark_riscv_speedup.png", next |-> "L239"] >>

\* The table a call passes.
DataOf(platform) == IF platform = "x86_64" THEN x86_data ELSE riscv_data

\* line 125 / line 223: savefig writes the figure under its filename
SaveFig(filename, chart) ==
    charts' = [f \in DOMAIN charts \cup {filename} |->
                  IF f = filename THEN chart ELSE charts[f]]

\* One call of create_bar_chart; it cannot raise on a parsed table.
CreateBarChart(call) ==
    /\ Running
    /\ pc = call.pc
    /\ SaveFig(call.filename,
               create_bar_chart(DataOf(call.platform),
                                call.include_interpreter))
    /\ pc' = call.next
    /\ UNCHANGED <<content, x86_section, riscv_section, x86_data, riscv_data,
                   error>>

\* One call of create_speedup_chart.
CreateSpeedupChart(call) ==
    /\ Running
    /\ pc = call.pc
    /\ LET r == create_speedup_chart(DataOf(call.platform))
       IN  IF r.error = "none"
           THEN /\ SaveFig(call.filename, r.chart)
                /\ pc' = call.next
                /\ UNCHANGED error
           ELSE /\ Raise(r.error)
                /\ UNCHANGED charts
    /\ UNCHANGED <<content, x86_section, riscv_section, x86_data, riscv_data>>

\* Line 239: the closing print
Finish ==
    /\ Running
    /\ pc = "L239"
    /\ pc' = "done"
    /\ UNCHANGED <<content, x86_section, riscv_section, x86_data, riscv_data,
                   charts, error>>

Next ==
    \/ ReadReport
    \/ SplitX86
    \/ SplitRiscv
    \/ ParseX86
    \/ ParseRiscv
    \/ \E k \in 1..Len(BarChartCalls) : CreateBarChart(BarChartCalls[k])
    \/ \E k \in 1..Len(SpeedupChartCalls) :
           CreateSpeedupChart(SpeedupChartCalls[k])
    \/ Finish

Spec == Init /\ [][Next]_vars

---------------------------------------------------------------------------
(* Properties.  The helpers below say where the script is and restate, in  *)
(* declarative form, what the properties compare the script's results to.  *)

Statements == <<"L8", "L12", "L13", "L45", "L46", "L129", "L137", "L146",
                "L154", "L227", "L233", "L239", "done">>

LineIndex(l) == CHOOSE k \in 1..Len(Statements) : Statements[k] = l

\* The statement at line l has run to completion.
Past(l) == LineIndex(pc) > LineIndex(l)

\* The statement at line l raised.
RaisedAt(l) == pc = l /\ error # "none"

Min2(a, b) == IF a <= b THEN a ELSE b

SetMax(S) == CHOOSE x \in S : \A y \in S : y <= x

\* The positions of the text a section covers, given where its match began.
Span(start, section) == start..(start + Len(section) - 1)

\* C1: when the report holds both markers, whichever comes first, the two
\* sections share no position of the text, and every position from the
\* earlier marker's first occurrence to the end of the text lies in exactly
\* one of them.
C1_SectionsPartitionText ==
    Past("L13") =>
        LET x == Find(content, X86_64, 1)
            r == Find(content, RISCV64, 1)
            inX86 == Span(x, x86_section)
            inRiscv == Span(r, riscv_section)
        IN  /\ inX86 \cap inRiscv = {}
            /\ inX86 \cup inRiscv = Min2(x, r)..Len(content)

\* C2: if either marker occurs nowhere in the report, the script gets no
\* further than the splitting statements (lines 12-13), so no section is
\* parsed and no image is written, and the only exception it ends with is
\* the AttributeError of the failed search.  (Every step changes pc or
\* error, so a step taken at the statement that misses its marker can
\* only be that raise.)
C2_MissingMarkerAborts ==
    (Past("L8") /\ (~Contains(content, X86_64) \/ ~Contains(content, RISCV64)))
    => /\ pc \in {"L12", "L13"}
       /\ ~Contains(content, X86_64) => pc = "L12"
       /\ x86_data = << >> /\ riscv_data = << >>
       /\ DOMAIN charts = {}
       /\ error \in {"none", "AttributeError"}

\* C2's case: the report has an x86_64 section but no riscv64 marker, and
\* line 13 has raised.
C2_Witness_RiscvMarkerMissing ==
    /\ RaisedAt("L13")
    /\ error = "AttributeError"
    /\ Contains(content, X86_64)
    /\ ~Contains(content, RISCV64)
    /\ x86_section # << >>

\* The category of the first rule, in the order interpret, compile, gcc,
\* clang, whose substring the description contains; "none" if none does.
FirstMatchCategory(method) ==
    LET rules == << <<INTERPRET, "interpreter">>, <<COMPILE, "native">>,
                    <<GCC, "gcc">>, <<CLANG, "clang">> >>
        hits == {k \in 1..Len(rules) : Contains(method, rules[k][1])}
    IN  IF hits = {} THEN "none"
        ELSE rules[CHOOSE k \in hits : \A h \in hits : k <= h][2]

\* The digit right after the last "-O" or "_O" of the description, as a
\* number; -1 if there is no such token or no digit follows it.
LevelAfterFinalOToken(method) ==
    LET tokens == {k \in 1..(Len(method) - 1) :
                      /\ method[k] \in {"-", "_"}
                      /\ method[k + 1] = "O"}
        last == SetMax(tokens)
    IN  IF tokens = {} \/ last + 2 > Len(method) THEN -1
        ELSE IntOfChar(method[last + 2])

\* Every description the line parser extracts from the section is
\* classified as the claim says.
ClassifiedAsSpecified(section) ==
    LET matches == FindAll(section, 1)
    IN  \A k \in 1..Len(matches) :
            LET method == matches[k].method
                r == Classify(method)
                category == FirstMatchCategory(method)
            IN  IF category = "none" THEN r.kind = "skip"
                ELSE /\ r.kind = "cell"
                     /\ r.category = category
                     /\ r.opt_level = LevelAfterFinalOToken(method)

\* C3: every description extracted from a section is classified by the
\* first matching rule in the order interpret, compile, gcc, clang, with
\* the level being the digit right after its last -O or _O token; and
\* the lines "compile -O2 1234ms" and
\* "x86_64-gcc -O3 transpile_O3.c 987ms" give (native, 2, 1234) and
\* (gcc, 3, 987).
C3_LevelIsDigitAfterFinalOToken ==
    /\ (Past("L45") \/ RaisedAt("L45")) => ClassifiedAsSpecified(x86_section)
    /\ (Past("L46") \/ RaisedAt("L46")) => ClassifiedAsSpecified(riscv_section)
    /\ parse_section(FlagLine(COMPILE, 2, 1234)).data
          = (2 :> [native |-> 1234])
    /\ parse_section(TranspileLine(X86_64 \o <<"-">> \o GCC, 3, 987)).data
          = (3 :> [gcc |-> 987])

\* The levels other than the baseline, and every time held by the table.
NonBaselineLevels(data) == DOMAIN data \ {0}

TimesIn(data) == UNION { {data[l][c] : c \in DOMAIN data[l]} : l \in DOMAIN data }

\* Every ratio baseline / time the table's measurements allow.
ComputableRatios(data) ==
    { Quotient(b, t) : b \in TimesIn(data), t \in TimesIn(data) \ {0} }

\* A speedup call whose figure was saved.
SpeedupSaved(call) == call.filename \in DOMAIN charts

\* In a saved speedup chart, the value at every position whose cell is
\* absent differs from every computable ratio.
AbsentMarkerIsDistinct(call) ==
    LET data == DataOf(call.platform)
        chart == charts[call.filename]
    IN  \A j \in 1..Len(chart.speedups) : \A i \in 1..Len(chart.opt_levels) :
            chart.speedups[j].category \notin DOMAIN data[chart.opt_levels[i]]
            => \A ratio \in ComputableRatios(data) :
                   ~PyEq(chart.speedups[j].values[i], ratio)

\* C4: in a speedup table, the position of a category that is in the
\* level-0 row but absent at that level holds a marker distinct from every
\* computable ratio, a ratio of zero included.
C4_AbsentMarkerDistinctFromRatios ==
    \A k \in 1..Len(SpeedupChartCalls) :
        SpeedupSaved(SpeedupChartCalls[k])
        => AbsentMarkerIsDistinct(SpeedupChartCalls[k])

\* The (category, level) pairs for which create_speedup_chart computes a
\* ratio: the category is in the level-0 row and in the level's row.
ComputedPairs(data) ==
    { <<c, l>> \in (DOMAIN data[0]) \X NonBaselineLevels(data) :
        c \in DOMAIN data[l] }

\* C5: a speedup computed from a level-0 time of 0, or from a time of 0 at
\* the level computed, makes the computation fail: it never completes.
C5_ZeroTimeFailsSpeedup ==
    \A k \in 1..Len(SpeedupChartCalls) :
        SpeedupSaved(SpeedupChartCalls[k])
        => LET data == DataOf(SpeedupChartCalls[k].platform)
           IN  \A p \in ComputedPairs(data) :
                   data[0][p[1]] # 0 /\ data[p[2]][p[1]] # 0

\* Every matched line of the section is a cell of the table or skipped.
EveryLineCellOrSkipped(section, data) ==
    LET matches == FindAll(section, 1)
    IN  \A k \in 1..Len(matches) :
            LET r == Classify(matches[k].method)
            IN  \/ r.kind = "skip"
                \/ /\ r.kind = "cell"
                   /\ r.opt_level \in DOMAIN data
                   /\ r.category \in DOMAIN data[r.opt_level]

\* C6: parsing a section never aborts because of a line: neither call of
\* parse_section raises, and every matched line of a parsed section is
\* either a cell of the returned table or skipped.
C6_ParseNeverAborts ==
    /\ ~RaisedAt("L45")
    /\ ~RaisedAt("L46")
    /\ pc = "L46" => EveryLineCellOrSkipped(x86_section, x86_data)
    /\ pc = "L129" => EveryLineCellOrSkipped(riscv_section, riscv_data)

\* The classified triples of a section, in match order: what the table
\* builder folds.  Lines that classify to no category are left out.
Triples(section) ==
    LET matches == FindAll(section, 1)
        Cell(m) == Classify(m.method).kind = "cell"
        cells == SelectSeq(matches, Cell)
    IN  [k \in 1..Len(cells) |->
            [opt_level |-> Classify(cells[k].method).opt_level,
             category |-> Classify(cells[k].method).category,
             time |-> ToInt(cells[k].time)]]

\* The triples that carry the key (level, category).
TriplesFor(triples, level, category) ==
    { k \in 1..Len(triples) :
        triples[k].opt_level = level /\ triples[k].category = category }

\* The table is the last-write-wins fold of the triples, with no empty row.
IsLastWriteWinsFold(triples, data) ==
    /\ \A l \in DOMAIN data :
        /\ DOMAIN data[l] # {}
        /\ \A c \in DOMAIN data[l] :
               LET ks == TriplesFor(triples, l, c)
               IN  /\ ks # {}
                   /\ data[l][c] = triples[SetMax(ks)].time
    /\ \A k \in 1..Len(triples) :
           /\ triples[k].opt_level \in DOMAIN data
           /\ triples[k].category \in DOMAIN data[triples[k].opt_level]

\* C7: the table parse_section has just returned (line 45 for x86_64,
\* line 46 for riscv64) holds, in each populated cell, the time of the last
\* classified triple with that level and category; a cell is populated
\* exactly when some triple carries its key; no level row is empty.
C7_TableIsLastWriteWins ==
    /\ pc = "L46" => IsLastWriteWinsFold(Triples(x86_section), x86_data)
    /\ pc = "L129" => IsLastWriteWinsFold(Triples(riscv_section), riscv_data)

\* C7's case: the riscv64 section holds two lines for one cell with
\* different times, and it has been parsed.
C7_Witness_DuplicateKey ==
    /\ pc = "L129"
    /\ LET triples == Triples(riscv_section)
       IN  \E l \in DOMAIN riscv_data : \E c \in DOMAIN riscv_data[l] :
               \E k1, k2 \in TriplesFor(triples, l, c) :
                   /\ k1 < k2
                   /\ triples[k1].time # triples[k2].time

\* Position of a category in the fixed order.
CategoryRank(c) == CHOOSE j \in 1..Len(AllCategories) : AllCategories[j] = c

BarsOf(chart, level, category) ==
    { k \in 1..Len(chart.bars) :
        chart.bars[k].opt_level = level /\ chart.bars[k].category = category }

\* A saved absolute-runtime chart draws the table as the claim says.
RuntimeChartDrawsTable(call) ==
    LET data == DataOf(call.platform)
        chart == charts[call.filename]
        bars == chart.bars
        selected == IF call.include_interpreter
                    THEN {"interpreter", "native", "gcc", "clang"}
                    ELSE {"native", "gcc", "clang"}
    IN  /\ Len(bars) = Cardinality(DOMAIN data) * Cardinality(selected)
        /\ \A l \in DOMAIN data : \A c \in selected :
               Cardinality(BarsOf(chart, l, c)) = 1
        /\ \A k1, k2 \in 1..Len(bars) :
               k1 < k2 =>
                 \/ bars[k1].opt_level < bars[k2].opt_level
                 \/ /\ bars[k1].opt_level = bars[k2].opt_level
                    /\ CategoryRank(bars[k1].category)
                          < CategoryRank(bars[k2].category)
        /\ \A k \in 1..Len(bars) :
               LET l == bars[k].opt_level
                   c == bars[k].category
               IN  /\ l \in DOMAIN data /\ c \in selected
                   /\ bars[k].value =
                         (IF c \in DOMAIN data[l] THEN data[l][c] ELSE 0)
                   /\ bars[k].annotated <=> bars[k].value > 0

\* C8: an absolute-runtime chart draws, for each level of the table in
\* ascending order and each selected category in the fixed order, exactly
\* one bar, whose height is the cell's time or 0 if the cell is absent; a
\* bar is annotated exactly when its value is positive; no call of
\* create_bar_chart raises.
C8_RuntimeChartDrawsEveryCell ==
    \A k \in 1..Len(BarChartCalls) :
        /\ ~RaisedAt(BarChartCalls[k].pc)
        /\ BarChartCalls[k].filename \in DOMAIN charts
           => RuntimeChartDrawsTable(BarChartCalls[k])

\* C8's case: a saved compiled-only x86_64 chart of a partial table, with a
\* bar for an absent cell, a bar for a cell holding 0 and an annotated bar.
C8_Witness_PartialTable ==
    /\ "benchmark_x86_compiled.png" \in DOMAIN charts
    /\ LET bars == charts["benchmark_x86_compiled.png"].bars
       IN  /\ \E k \in 1..Len(bars) :
                 /\ bars[k].category \notin DOMAIN x86_data[bars[k].opt_level]
                 /\ bars[k].value = 0 /\ ~bars[k].annotated
           /\ \E k \in 1..Len(bars) :
                 /\ bars[k].category \in DOMAIN x86_data[bars[k].opt_level]
                 /\ bars[k].value = 0 /\ ~bars[k].annotated
           /\ \E k \in 1..Len(bars) : bars[k].annotated

\* A saved speedup chart uses the levels and categories the claim says.
SpeedupUsesNonBaselineLevels(call) ==
    LET data == DataOf(call.platform)
        chart == charts[call.filename]
        levels == chart.opt_levels
    IN  /\ {levels[i] : i \in 1..Len(levels)} = NonBaselineLevels(data)
        /\ \A i1, i2 \in 1..Len(levels) : i1 < i2 => levels[i1] < levels[i2]
        /\ \A j \in 1..Len(chart.speedups) :
               LET c == chart.speedups[j].category
                   values == chart.speedups[j].values
               IN  /\ c \in DOMAIN data[0]
                   /\ Len(values) = Len(levels)
                   /\ \A i \in 1..Len(levels) :
                          c \in DOMAIN data[levels[i]]
                          => values[i].num * data[levels[i]][c]
                                = values[i].den * data[0][c]

\* C9: when the speedup computation completes, its levels are exactly the
\* table's levels other than 0, ascending; every category of the speedup
\* table is in the level-0 row; each category's sequence has one position
\* per such level, in that order.
C9_SpeedupLevelsExcludeBaseline ==
    \A k \in 1..Len(SpeedupChartCalls) :
        SpeedupSaved(SpeedupChartCalls[k])
        => SpeedupUsesNonBaselineLevels(SpeedupChartCalls[k])

\* C9's case: the x86_64 speedup chart was saved for a table with levels
\* 0, 1 and 2 in which gcc is measured but not at level 0.
C9_Witness_TwoLevelsCategoryOutsideBaseline ==
    /\ "benchmark_x86_speedup.png" \in DOMAIN charts
    /\ {0, 1, 2} \subseteq DOMAIN x86_data
    /\ "gcc" \notin DOMAIN x86_data[0]
    /\ "gcc" \in DOMAIN x86_data[1]
    /\ Len(charts["benchmark_x86_speedup.png"].opt_levels) >= 2

\* C10: in every saved chart, each category with at least one bar drawn has
\* exactly one bar carrying a non-blank legend label.
C10_OneLegendLabelPerDrawnCategory ==
    \A f \in DOMAIN charts :
        LET bars == charts[f].bars
        IN  \A k \in 1..Len(bars) :
                Cardinality({ h \in 1..Len(bars) :
                                /\ bars[h].category = bars[k].category
                                /\ bars[h].label # "" }) = 1

===========================================================================
